---------------------------- MODULE Spec2Model ----------------------------
(***************************************************************************)
(* Password generator: generatePassword and calculatePasswordStrength of   *)
(* src/utils/passwordUtils.ts, and the App component with its              *)
(* usePasswordGenerator hook that calls them.                              *)
(*                                                                         *)
(* A character is a one-character string, a password a sequence of         *)
(* characters (the JavaScript string indexed from 0 is the sequence        *)
(* indexed from 1).  A Uint32 value v is the record [hi, lo] with          *)
(* v = hi * 65536 + lo, so that the whole 32-bit range is representable.   *)
(***************************************************************************)
EXTENDS Integers, Sequences, FiniteSets, TLC

VARIABLES
    options,      \* the PasswordOptions value passed to the call
    crypto,       \* the values crypto.getRandomValues hands out, in order
    sortOutcome,  \* what the engine's Array.prototype.sort does with the comparator
    pc,           \* "ready" before the call, "done" / "scored" after it
    result,       \* how generatePassword completed
    password,     \* the password given to calculatePasswordStrength
    strength,     \* the StrengthResult returned
    effectPending, \* App: the effect on generateNewPassword is still to run
    call,         \* App: the generatePassword call of the last step, if any
    event,        \* App: the last event of the user
    copied,       \* PasswordDisplay: the copied state
    error,        \* PasswordDisplay: the error state
    timeoutRef,   \* PasswordDisplay: timeoutRef.current
    timers,       \* the timeouts set and neither fired nor cleared
    now,          \* the time, in seconds
    pending,      \* the calls of clipboard.writeText not yet settled
    lastFailure   \* the time at which the last copy failed

uiVars == <<effectPending, call, event>>

copyVars == <<copied, error, timeoutRef, timers, now, pending, lastFailure>>

vars == <<options, crypto, sortOutcome, pc, result, password, strength,
          effectPending, call, event,
          copied, error, timeoutRef, timers, now, pending, lastFailure>>

-----------------------------------------------------------------------------
(* Program constants *)

MinLength == 4
MaxLength == 50

UPPERCASE_CHARS ==
    << "A","B","C","D","E","F","G","H","I","J","K","L","M",
       "N","O","P","Q","R","S","T","U","V","W","X","Y","Z" >>
LOWERCASE_CHARS ==
    << "a","b","c","d","e","f","g","h","i","j","k","l","m",
       "n","o","p","q","r","s","t","u","v","w","x","y","z" >>
NUMBER_CHARS ==
    << "0","1","2","3","4","5","6","7","8","9" >>
SYMBOL_CHARS ==
    << "!","@","#","$","%","^","&","*","(",")","_","+","-",
       "=","[","]","{","}","|",";",":",",",".","<",">","?" >>

LengthError == "Password length must be between 4 and 50 characters"
NoTypesError == "No character types selected"
\* what the runtime throws when crypto.getRandomValues cannot deliver
RandomSourceError == "crypto.getRandomValues failed"

-----------------------------------------------------------------------------
(* Bounds of the model *)

\* lengths MinLength .. MinLength + ExtraLengths are explored next to the
\* boundary lengths
ExtraLengths == 2
\* the first FreeDraws values of the random source are arbitrary
FreeDraws == 2
\* the values after them follow one of the streams 0 .. MaxSeed
MaxSeed == 1
\* the scorer is given passwords of 0 .. MaxPasswordLength characters
MaxPasswordLength == 17
\* a failing random source fails at one of its first MaxFailingDraw values
MaxFailingDraw == 11

-----------------------------------------------------------------------------
(* Helpers *)

Min(a, b) == IF a < b THEN a ELSE b

Range(s) == { s[i] : i \in DOMAIN s }

Perms(n) ==
    { p \in [1..n -> 1..n] : \A i, j \in 1..n : p[i] = p[j] => i = j }

-----------------------------------------------------------------------------
(* The random source *)

U32(h, l) == [hi |-> h, lo |-> l]

\* 0, 0x80000000, 0xffffffff
RandVals == { U32(0, 0), U32(32768, 0), U32(65535, 65535) }

Seeds == 0..MaxSeed

\* failAt = 0: the source is available; failAt = k > 0: the call that is to
\* deliver the k-th value throws instead
CryptoSources ==
    [ free : [1..FreeDraws -> RandVals], seed : Seeds, failAt : {0} ]

\* the k-th Uint32 value the source hands out (k = 1, 2, ...)
getRandomValues(src, k) ==
    IF k <= Len(src.free)
    THEN src.free[k]
    ELSE U32((src.seed * 30011 + k * 7919) % 65536,
             (src.seed * 50021 + k * 104729) % 65536)

\* Mutant: a failing source is ignored and values are taken all the same
\* (a catch around the draw that falls back to another generator).
getRandomValuesThrows_FallsBack(src, n) == FALSE

\* whether one of the first n values asked of the source is not delivered:
\* crypto.getRandomValues throws, and nothing in generatePassword catches it
getRandomValuesThrows(src, n) == src.failAt \in 1..n

\* randomArray[0] % n
randomIndex(r, n) == (((r.hi % n) * (65536 % n)) + r.lo) % n

-----------------------------------------------------------------------------
(* generatePassword *)

\* Mutant: a failed validation returns the empty string.
Thrown_ReturnsEmpty(message) ==
    [ outcome |-> "returned", error |-> "", value |-> << >>,
      requiredChars |-> << >>, unshuffled |-> << >>, draws |-> 0 ]

Thrown(message) ==
    [ outcome |-> "thrown", error |-> message, value |-> << >>,
      requiredChars |-> << >>, unshuffled |-> << >>, draws |-> 0 ]

Returned(pw, required, before, n) ==
    [ outcome |-> "returned", error |-> "", value |-> pw,
      requiredChars |-> required, unshuffled |-> before, draws |-> n ]

NoResult ==
    [ outcome |-> "none", error |-> "", value |-> << >>,
      requiredChars |-> << >>, unshuffled |-> << >>, draws |-> 0 ]

\* Mutant: the bounds are excluded.
lengthOutOfRange_Exclusive(opts) ==
    opts.length <= MinLength \/ opts.length >= MaxLength

\* options.length < 4 || options.length > 50
lengthOutOfRange(opts) == opts.length < MinLength \/ opts.length > MaxLength

\* Mutant: the symbols are in the pool whether enabled or not.
characterPool_AlwaysSymbols(opts) ==
    (IF opts.uppercase THEN UPPERCASE_CHARS ELSE << >>) \o
    (IF opts.lowercase THEN LOWERCASE_CHARS ELSE << >>) \o
    (IF opts.numbers THEN NUMBER_CHARS ELSE << >>) \o
    SYMBOL_CHARS

characterPool(opts) ==
    (IF opts.uppercase THEN UPPERCASE_CHARS ELSE << >>) \o
    (IF opts.lowercase THEN LOWERCASE_CHARS ELSE << >>) \o
    (IF opts.numbers THEN NUMBER_CHARS ELSE << >>) \o
    (IF opts.symbols THEN SYMBOL_CHARS ELSE << >>)

charSets(opts) ==
    (IF opts.uppercase THEN << UPPERCASE_CHARS >> ELSE << >>) \o
    (IF opts.lowercase THEN << LOWERCASE_CHARS >> ELSE << >>) \o
    (IF opts.numbers THEN << NUMBER_CHARS >> ELSE << >>) \o
    (IF opts.symbols THEN << SYMBOL_CHARS >> ELSE << >>)

numRequiredChars(opts) == Min(Len(charSets(opts)), opts.length)

\* Mutant: every required character is drawn from the first set.
requiredChars_FirstSetOnly(opts, src) ==
    [ i \in 1..Min(Len(charSets(opts)), opts.length) |->
        LET charSet == charSets(opts)[1]
        IN  charSet[randomIndex(getRandomValues(src, i), Len(charSet)) + 1] ]

\* one character of each of the first numRequiredChars sets, from draws 1 .. m
requiredChars(opts, src) ==
    [ i \in 1..numRequiredChars(opts) |->
        LET charSet == charSets(opts)[i]
        IN  charSet[randomIndex(getRandomValues(src, i), Len(charSet)) + 1] ]

\* requiredChars.sort(comparator) with a comparator that answers at random:
\* the comparator is not consistent, so the order the engine leaves the array
\* in is implementation-defined.  The engine returns the elements in some
\* order (outcome.perm) after some number of comparator calls, each of which
\* draws one value (outcome.calls).
shuffledRequired(chars, outcome) ==
    [ i \in 1..Len(chars) |-> chars[outcome.perm[i]] ]

\* Mutant: the length is not subtracted by what the password already holds.
remainingLength_NotReduced(opts, pw) == opts.length

remainingLength(opts, pw) == opts.length - Len(pw)

\* the filler characters: one getRandomValues call of remainingLength values,
\* which are draws pos + 1 .. pos + remainingLength
fillerChars(opts, pw, src, pos) ==
    LET pool == characterPool(opts)
    IN  IF remainingLength(opts, pw) > 0
        THEN [ i \in 1..remainingLength(opts, pw) |->
                 pool[randomIndex(getRandomValues(src, pos + i), Len(pool)) + 1] ]
        ELSE << >>

\* Mutant: position i takes the character of position j, which keeps it.
swap_CopiesOnly(passwordArray, i, j) ==
    [ passwordArray EXCEPT ![i + 1] = passwordArray[j + 1] ]

\* [passwordArray[i], passwordArray[j]] = [passwordArray[j], passwordArray[i]]
\* for the 0-based positions i and j
swap(passwordArray, i, j) ==
    [ passwordArray EXCEPT ![i + 1] = passwordArray[j + 1],
                           ![j + 1] = passwordArray[i + 1] ]

\* for (let i = passwordArray.length - 1; i > 0; i--): the iterations from
\* i down to 1, the first of which takes draw pos + 1
RECURSIVE shufflePassword(_, _, _, _)
shufflePassword(passwordArray, i, src, pos) ==
    IF i > 0
    THEN LET j == randomIndex(getRandomValues(src, pos + 1), i + 1)
         IN  shufflePassword(swap(passwordArray, i, j), i - 1, src, pos + 1)
    ELSE passwordArray

\* Mutant: the pool is validated before the length.
validationError_PoolFirst(opts) ==
    IF Len(characterPool(opts)) = 0 THEN NoTypesError
    ELSE IF lengthOutOfRange(opts) THEN LengthError
    ELSE ""

\* the two validations, in the order the code makes them: the message of the
\* Error thrown, "" when none is
validationError(opts) ==
    IF lengthOutOfRange(opts) THEN LengthError
    ELSE IF Len(characterPool(opts)) = 0 THEN NoTypesError
    ELSE ""

generatePassword(opts, src, outcome) ==
    IF validationError(opts) # ""
    THEN Thrown(validationError(opts))
    ELSE
      LET required == requiredChars(opts, src)
          shuffled == shuffledRequired(required, outcome)
          afterSort == Len(required) + outcome.calls
          filler == fillerChars(opts, shuffled, src, afterSort)
          unshuffled == shuffled \o filler
          afterFill == afterSort + Len(filler)
          passwordArray ==
              shufflePassword(unshuffled, Len(unshuffled) - 1, src, afterFill)
          draws == afterFill + (IF Len(unshuffled) > 0
                                THEN Len(unshuffled) - 1 ELSE 0)
      IN  IF getRandomValuesThrows(src, draws)
          THEN Thrown(RandomSourceError)
          ELSE Returned(passwordArray, required, unshuffled, draws)

-----------------------------------------------------------------------------
(* calculatePasswordStrength *)

labels == << "TOO WEAK", "WEAK", "MEDIUM", "STRONG", "VERY STRONG" >>

NoStrength == [ level |-> 0, label |-> "" ]

varietyCount(opts) ==
    (IF opts.uppercase THEN 1 ELSE 0) + (IF opts.lowercase THEN 1 ELSE 0) +
    (IF opts.numbers THEN 1 ELSE 0) + (IF opts.symbols THEN 1 ELSE 0)

\* Mutant: from 12 characters on, fewer than two types score 0 as below 12.
score_ZeroBelowTwoTypes(passwordLength, variety) ==
    IF passwordLength < 6 THEN 0
    ELSE IF passwordLength < 8 THEN (IF variety >= 2 THEN 1 ELSE 0)
    ELSE IF passwordLength < 12
         THEN (IF variety >= 3 THEN 2 ELSE IF variety >= 2 THEN 1 ELSE 0)
    ELSE IF passwordLength < 16
         THEN (IF variety >= 3 THEN 3 ELSE IF variety >= 2 THEN 2 ELSE 0)
    ELSE (IF variety = 4 THEN 4 ELSE IF variety >= 3 THEN 3
          ELSE IF variety >= 2 THEN 2 ELSE 0)

\* Mutant: from 16 characters on, fewer than three types score as 6 - 7
\* characters do.
score_SixteenDropsBelowThreeTypes(passwordLength, variety) ==
    IF passwordLength < 6 THEN 0
    ELSE IF passwordLength < 8 THEN (IF variety >= 2 THEN 1 ELSE 0)
    ELSE IF passwordLength < 12
         THEN (IF variety >= 3 THEN 2 ELSE IF variety >= 2 THEN 1 ELSE 0)
    ELSE IF passwordLength < 16 THEN (IF variety >= 3 THEN 3 ELSE 2)
    ELSE (IF variety = 4 THEN 4 ELSE IF variety >= 3 THEN 3
          ELSE IF variety >= 2 THEN 1 ELSE 0)

\* Mutant: 12 characters still count as the 8 - 11 range.
score_TwelveInclusive(passwordLength, variety) ==
    IF passwordLength < 6 THEN 0
    ELSE IF passwordLength < 8 THEN (IF variety >= 2 THEN 1 ELSE 0)
    ELSE IF passwordLength <= 12
         THEN (IF variety >= 3 THEN 2 ELSE IF variety >= 2 THEN 1 ELSE 0)
    ELSE IF passwordLength < 16 THEN (IF variety >= 3 THEN 3 ELSE 2)
    ELSE (IF variety = 4 THEN 4 ELSE IF variety >= 3 THEN 3 ELSE 2)

\* the if / else-if chain on password.length and varietyCount
score(passwordLength, variety) ==
    IF passwordLength < 6 THEN 0
    ELSE IF passwordLength < 8 THEN (IF variety >= 2 THEN 1 ELSE 0)
    ELSE IF passwordLength < 12
         THEN (IF variety >= 3 THEN 2 ELSE IF variety >= 2 THEN 1 ELSE 0)
    ELSE IF passwordLength < 16 THEN (IF variety >= 3 THEN 3 ELSE 2)
    ELSE (IF variety = 4 THEN 4 ELSE IF variety >= 3 THEN 3 ELSE 2)

\* Mutant: the label is looked up one entry too far.
labelOf_OneTooFar(level) ==
    IF level + 1 < Len(labels) THEN labels[level + 2] ELSE "VERY STRONG"

\* level < labels.length ? labels[level] : "VERY STRONG"
labelOf(level) ==
    IF level < Len(labels) THEN labels[level + 1] ELSE "VERY STRONG"

\* Mutant: the length scored is the one asked for, not the password's.
calculatePasswordStrength_OptionsLength(pw, opts) ==
    LET level == Min(score(opts.length, varietyCount(opts)), 4)
    IN  [ level |-> level, label |-> labelOf(level) ]

calculatePasswordStrength(pw, opts) ==
    LET level == Min(score(Len(pw), varietyCount(opts)), 4)
    IN  [ level |-> level, label |-> labelOf(level) ]

-----------------------------------------------------------------------------
(* Inputs *)

LengthInputs ==
    {-1, 0} \cup ((MinLength - 1)..(MinLength + ExtraLengths))
            \cup (MaxLength..(MaxLength + 1))

OptionValues ==
    [ length : LengthInputs, uppercase : BOOLEAN, lowercase : BOOLEAN,
      numbers : BOOLEAN, symbols : BOOLEAN ]

\* a sort of m elements: any order of them, after between m - 1 and
\* m (m - 1) / 2 comparator calls (none when there is nothing to compare)
CompareCalls(m) == IF m < 2 THEN {0} ELSE (m - 1)..((m * (m - 1)) \div 2)

SortOutcomes(m) == [ perm : Perms(m), calls : CompareCalls(m) ]

NoSort == [ perm |-> << >>, calls |-> 0 ]

NoCrypto == [ free |-> << >>, seed |-> 0, failAt |-> 0 ]

\* the characters the scorer's passwords are made of, repeated in turn
PasswordPatterns == { << "a" >>, << "A", "b" >>, << "a", "B", "3", "#" >> }

ScorePasswords ==
    { [ i \in 1..n |-> pat[((i - 1) % Len(pat)) + 1] ] :
        n \in 0..MaxPasswordLength, pat \in PasswordPatterns }

ScoreOptions ==
    [ length : {MinLength, MaxLength}, uppercase : BOOLEAN, lowercase : BOOLEAN,
      numbers : BOOLEAN, symbols : BOOLEAN ]

\* no generatePassword call was made
NoCall ==
    [ made |-> FALSE, by |-> "", outcome |-> "none",
      options |-> [ length |-> 0, uppercase |-> FALSE, lowercase |-> FALSE,
                    numbers |-> FALSE, symbols |-> FALSE ] ]

\* useState<string | null>(null): no error
Null == "null"

\* useRef<NodeJS.Timeout | null>(null): no timeout kept
NoTimeout == [ kind |-> "none", due |-> 0 ]

\* the PasswordDisplay component is not part of the run
CopyAbsent ==
    /\ copied = FALSE
    /\ error = Null
    /\ timeoutRef = NoTimeout
    /\ timers = {}
    /\ now = 0
    /\ pending = 0
    /\ lastFailure = 0

\* the App component is not part of the run
UIAbsent ==
    /\ effectPending = FALSE
    /\ call = NoCall
    /\ event = "none"

-----------------------------------------------------------------------------
(* One call of generatePassword *)

Init ==
    /\ options \in OptionValues
    /\ crypto \in CryptoSources
    /\ sortOutcome \in SortOutcomes(IF validationError(options) = ""
                                    THEN numRequiredChars(options) ELSE 0)
    /\ pc = "ready"
    /\ result = NoResult
    /\ password = << >>
    /\ strength = NoStrength
    /\ UIAbsent
    /\ CopyAbsent

Generate ==
    /\ pc = "ready"
    /\ result' = generatePassword(options, crypto, sortOutcome)
    /\ pc' = "done"
    /\ UNCHANGED <<options, crypto, sortOutcome, password, strength, uiVars, copyVars>>

Next == Generate

Spec == Init /\ [][Next]_vars

-----------------------------------------------------------------------------
(* One call of generatePassword with a random source that fails *)

FailingSources ==
    [ free : { << >> }, seed : Seeds, failAt : 1..MaxFailingDraw ]

InitEntropy ==
    /\ options \in { o \in OptionValues : o.length <= MinLength + ExtraLengths }
    /\ crypto \in FailingSources
    /\ sortOutcome \in SortOutcomes(IF validationError(options) = ""
                                    THEN numRequiredChars(options) ELSE 0)
    /\ pc = "ready"
    /\ result = NoResult
    /\ password = << >>
    /\ strength = NoStrength
    /\ UIAbsent
    /\ CopyAbsent

SpecEntropy == InitEntropy /\ [][Next]_vars

-----------------------------------------------------------------------------
(* requiredChars.sort(comparator) on an engine that sorts by insertion *)

\* the comparator's answer randomArray[0] / 0xffffffff - 0.5 is positive for
\* the 2^31 values from 0x80000000 on and negative for the 2^31 values below
\* (it is never 0, and it does not look at the two elements compared)
comparatorPositive(r) == r.hi >= 32768

\* Insertion sort of the positions perm: the element at position i is moved
\* down while comparator(left neighbour, element) > 0.  Every comparator call
\* takes one value of the source; base values were taken before the sort
\* and calls values by it so far.
RECURSIVE insertionSort(_, _, _, _, _, _)
insertionSort(perm, i, j, src, base, calls) ==
    IF i > Len(perm)
    THEN [ perm |-> perm, calls |-> calls ]
    ELSE IF j = 1
    THEN insertionSort(perm, i + 1, i + 1, src, base, calls)
    ELSE IF comparatorPositive(getRandomValues(src, base + calls + 1))
    THEN insertionSort(swap(perm, j - 2, j - 1), i, j - 1, src, base, calls + 1)
    ELSE insertionSort(perm, i + 1, i + 1, src, base, calls + 1)

\* what the sort does with the m required characters, which were drawn from
\* the first m values of src
sortByInsertion(m, src) ==
    insertionSort([ i \in 1..m |-> i ], 2, 2, src, m, 0)

NumCharSets == Len(charSets([ length |-> MinLength, uppercase |-> TRUE,
                              lowercase |-> TRUE, numbers |-> TRUE,
                              symbols |-> TRUE ]))

\* the most comparator calls a sort of m elements makes
MaxCompareCalls(m) == (m * (m - 1)) \div 2

\* one value of either sign
SignVals == { U32(0, 0), U32(65535, 65535) }

SortSources ==
    [ free : [1..(NumCharSets + MaxCompareCalls(NumCharSets)) -> SignVals],
      seed : {0}, failAt : {0} ]

InitSort ==
    /\ options \in { o \in OptionValues :
                       o.length = MinLength /\ validationError(o) = "" }
    /\ crypto \in SortSources
    /\ sortOutcome = NoSort
    /\ pc = "ready"
    /\ result = NoResult
    /\ password = << >>
    /\ strength = NoStrength
    /\ UIAbsent
    /\ CopyAbsent

\* generatePassword up to and including the sort of the required characters
SortRequired ==
    /\ pc = "ready"
    /\ sortOutcome' = sortByInsertion(numRequiredChars(options), crypto)
    /\ pc' = "sorted"
    /\ UNCHANGED <<options, crypto, result, password, strength, uiVars, copyVars>>

\* the rest of the call
GenerateSorted ==
    /\ pc = "sorted"
    /\ result' = generatePassword(options, crypto, sortOutcome)
    /\ pc' = "done"
    /\ UNCHANGED <<options, crypto, sortOutcome, password, strength, uiVars, copyVars>>

NextSort == SortRequired \/ GenerateSorted

SpecSort == InitSort /\ [][NextSort]_vars

-----------------------------------------------------------------------------
(* One call of calculatePasswordStrength *)

InitScore ==
    /\ options \in ScoreOptions
    /\ password \in ScorePasswords
    /\ crypto = NoCrypto
    /\ sortOutcome = NoSort
    /\ pc = "ready"
    /\ result = NoResult
    /\ strength = NoStrength
    /\ UIAbsent
    /\ CopyAbsent

CalculateStrength ==
    /\ pc = "ready"
    /\ strength' = calculatePasswordStrength(password, options)
    /\ pc' = "scored"
    /\ UNCHANGED <<options, crypto, sortOutcome, result, password, uiVars, copyVars>>

NextScore == CalculateStrength

SpecScore == InitScore /\ [][NextScore]_vars

-----------------------------------------------------------------------------
(* The App component and its usePasswordGenerator hook *)

Max(a, b) == IF a >= b THEN a ELSE b

\* useState of the hook: the options before any event
defaultOptions ==
    [ length |-> 10, uppercase |-> TRUE, lowercase |-> TRUE,
      numbers |-> TRUE, symbols |-> FALSE ]

\* the value of one decimal digit
digitValue(c) == (CHOOSE i \in 1..Len(NUMBER_CHARS) : NUMBER_CHARS[i] = c) - 1

\* parseInt(value, 10) of a string of decimal digits
RECURSIVE parseInt(_)
parseInt(value) ==
    IF Len(value) = 0
    THEN 0
    ELSE 10 * parseInt(SubSeq(value, 1, Len(value) - 1)) + digitValue(value[Len(value)])

validatedLength_Unclamped(newLength) == newLength

\* handleLengthChange: Math.max(4, Math.min(50, newLength))
validatedLength(newLength) == Max(MinLength, Min(MaxLength, newLength))

anyTypeSelected_Always(opts) == TRUE

\* the guard of handleKeyDown and the negation of the button's disabled
anyTypeSelected(opts) ==
    opts.uppercase \/ opts.lowercase \/ opts.numbers \/ opts.symbols

generateNewPassword_KeepsPrevious(prev, res) ==
    IF res.outcome = "thrown" THEN prev ELSE res.value

\* generateNewPassword: the password set from the result of generatePassword,
\* prev being the password shown before
generateNewPassword(prev, res) ==
    IF res.outcome = "thrown" THEN <<>> ELSE res.value

strengthOf_AlwaysScored(pw, opts) == calculatePasswordStrength(pw, opts)

\* useMemo of the hook: the strength rendered with a password and options
strengthOf(pw, opts) ==
    IF pw # <<>> THEN calculatePasswordStrength(pw, opts) ELSE NoStrength

\* the values the slider hands to handleLengthChange
SliderValues ==
    { <<"3">>, <<"4">>, <<"1", "2">>, <<"5", "0">>, <<"5", "1">> }

OptionKeys == { "uppercase", "lowercase", "numbers", "symbols" }

\* the random sources of the calls the App makes: seeded, working or failing
\* at the first value
UISources == [ free : {<<>>}, seed : Seeds, failAt : {0, 1} ]

\* the comparator calls of requiredChars.sort for options and a source
sortOf(opts, src) ==
    sortByInsertion(IF validationError(opts) = "" THEN numRequiredChars(opts) ELSE 0,
                    src)

InitUI ==
    /\ options = defaultOptions
    /\ password = <<>>
    /\ strength = strengthOf(<<>>, defaultOptions)
    /\ effectPending = TRUE
    /\ call = NoCall
    /\ event = "mount"
    /\ crypto = NoCrypto
    /\ sortOutcome = NoSort
    /\ pc = "ui"
    /\ result = NoResult
    /\ CopyAbsent

\* generateNewPassword called by a handler that closed over opts, the options
\* of the render after which newOptions are the options
CallGenerateNewPassword(by, opts, newOptions) ==
    \E src \in UISources :
        LET res == generatePassword(opts, src, sortOf(opts, src))
        IN  /\ password' = generateNewPassword(password, res)
            /\ strength' = strengthOf(generateNewPassword(password, res), newOptions)
            /\ call' = [ made |-> TRUE, by |-> by, outcome |-> res.outcome,
                         options |-> opts ]

\* the effect on [generateNewPassword]: runs after the mount and after every
\* render with a new options object
RunEffect ==
    /\ effectPending
    /\ CallGenerateNewPassword("effect", options, options)
    /\ effectPending' = FALSE
    /\ UNCHANGED <<options, event, crypto, sortOutcome, pc, result, copyVars>>

\* handleLengthChange and handleOptionsChange(newOptions, false)
LengthChange(value) ==
    /\ ~effectPending
    /\ options' = [options EXCEPT !.length = validatedLength(parseInt(value))]
    /\ strength' = strengthOf(password, options')
    /\ effectPending' = TRUE
    /\ call' = NoCall
    /\ event' = "length"
    /\ UNCHANGED <<password, crypto, sortOutcome, pc, result, copyVars>>

\* handleToggleOption and handleOptionsChange(newOptions, true)
ToggleOption(key) ==
    /\ ~effectPending
    /\ options' = [options EXCEPT ![key] = ~options[key]]
    /\ CallGenerateNewPassword("toggle", options, options')
    /\ effectPending' = TRUE
    /\ event' = "toggle"
    /\ UNCHANGED <<crypto, sortOutcome, pc, result, copyVars>>

\* a click on the Generate button: handleClick of GenerateButton
ClickGenerate ==
    /\ ~effectPending
    /\ IF anyTypeSelected(options)
       THEN CallGenerateNewPassword("click", options, options)
       ELSE call' = NoCall /\ UNCHANGED <<password, strength>>
    /\ event' = "click"
    /\ UNCHANGED <<options, effectPending, crypto, sortOutcome, pc, result, copyVars>>

\* Ctrl+G or Cmd+G: handleKeyDown
PressCtrlG ==
    /\ ~effectPending
    /\ IF anyTypeSelected(options)
       THEN CallGenerateNewPassword("key", options, options)
       ELSE call' = NoCall /\ UNCHANGED <<password, strength>>
    /\ event' = "key"
    /\ UNCHANGED <<options, effectPending, crypto, sortOutcome, pc, result, copyVars>>

NextUI ==
    \/ RunEffect
    \/ \E value \in SliderValues : LengthChange(value)
    \/ \E key \in OptionKeys : ToggleOption(key)
    \/ ClickGenerate
    \/ PressCtrlG

SpecUI == InitUI /\ [][NextUI]_vars

-----------------------------------------------------------------------------
(* The PasswordDisplay component: handleCopy and its timeouts *)

\* setTimeout(..., 2000) after a copy, in seconds
CopiedResetDelay == 2

\* setTimeout(..., 3000) after a failed copy, in seconds
ErrorClearDelay == 3

\* the time up to which the run is followed
MaxTime == 7

\* the most calls of clipboard.writeText in flight together
MaxPending == 2

CopyFailedMessage == "Failed to copy. Please try selecting and copying manually."

\* the password prop: none yet, or a generated one
CopyPasswords == { <<>>, << "a", "B", "3", "#" >> }

\* a timeout: what its callback resets and when it is due
Timeout(kind, due) == [ kind |-> kind, due |-> due ]

InitCopy ==
    /\ password \in CopyPasswords
    /\ copied = FALSE
    /\ error = Null
    /\ timeoutRef = NoTimeout
    /\ timers = {}
    /\ now = 0
    /\ pending = 0
    /\ lastFailure = 0
    /\ options = defaultOptions
    /\ strength = strengthOf(password, defaultOptions)
    /\ crypto = NoCrypto
    /\ sortOutcome = NoSort
    /\ pc = "display"
    /\ result = NoResult
    /\ UIAbsent

nonCopyVars ==
    <<options, crypto, sortOutcome, pc, result, password, strength, uiVars>>

\* handleCopy up to its await: nothing for an empty password, else the error
\* is cleared and clipboard.writeText is called
ClickCopy ==
    /\ password # <<>>
    /\ pending < MaxPending
    /\ error' = Null
    /\ pending' = pending + 1
    /\ UNCHANGED <<copied, timeoutRef, timers, now, lastFailure, nonCopyVars>>

\* handleCopy after the await, writeText fulfilled: copied is set, the timeout
\* of timeoutRef is cleared and a new one is set and kept in timeoutRef
WriteTextResolves ==
    /\ pending > 0
    /\ pending' = pending - 1
    /\ copied' = TRUE
    /\ timers' = (timers \ {timeoutRef}) \cup {Timeout("copied", now + CopiedResetDelay)}
    /\ timeoutRef' = Timeout("copied", now + CopiedResetDelay)
    /\ UNCHANGED <<error, now, lastFailure, nonCopyVars>>

\* handleCopy's catch, writeText rejected or absent: the error is set and a
\* timeout is set that nothing keeps
WriteTextRejects ==
    /\ pending > 0
    /\ pending' = pending - 1
    /\ error' = CopyFailedMessage
    /\ timers' = timers \cup {Timeout("error", now + ErrorClearDelay)}
    /\ lastFailure' = now
    /\ UNCHANGED <<copied, timeoutRef, now, nonCopyVars>>

\* a timeout that is due runs its callback: setCopied(false) or setError(null)
FireTimeout(t) ==
    /\ t \in timers
    /\ t.due <= now
    /\ timers' = timers \ {t}
    /\ IF t.kind = "copied"
       THEN copied' = FALSE /\ UNCHANGED error
       ELSE error' = Null /\ UNCHANGED copied
    /\ UNCHANGED <<timeoutRef, now, pending, lastFailure, nonCopyVars>>

\* a second passes, once every timeout that was due has run
Tick ==
    /\ now < MaxTime
    /\ \A t \in timers : t.due > now
    /\ now' = now + 1
    /\ UNCHANGED <<copied, error, timeoutRef, timers, pending, lastFailure, nonCopyVars>>

NextCopy ==
    \/ ClickCopy
    \/ WriteTextResolves
    \/ WriteTextRejects
    \/ \E t \in timers : FireTimeout(t)
    \/ Tick

SpecCopy == InitCopy /\ [][NextCopy]_vars

-----------------------------------------------------------------------------
(* Properties of generatePassword *)

Categories == { "uppercase", "lowercase", "numbers", "symbols" }

Alphabet(cat) ==
    CASE cat = "uppercase" -> Range(UPPERCASE_CHARS)
      [] cat = "lowercase" -> Range(LOWERCASE_CHARS)
      [] cat = "numbers" -> Range(NUMBER_CHARS)
      [] cat = "symbols" -> Range(SYMBOL_CHARS)

Enabled(opts) == { cat \in Categories : opts[cat] }

\* 4 <= length <= 50 and at least one category enabled
ValidOptions(opts) ==
    /\ 4 <= opts.length
    /\ opts.length <= 50
    /\ Enabled(opts) # {}

\* C1: for valid options and any values of the random source, generatePassword
\* returns a string of exactly options.length characters.
C1_LengthIsOptionsLength ==
    (pc = "done" /\ ValidOptions(options)) =>
        /\ result.outcome = "returned"
        /\ Len(result.value) = options.length

\* a call with all four categories and the greatest length has returned
C1_Witness ==
    /\ pc = "done"
    /\ ValidOptions(options)
    /\ options.length = 50
    /\ Enabled(options) = Categories
    /\ Len(result.value) = 50

\* C2: for valid options, every character returned belongs to the alphabet of
\* an enabled category and none to the alphabet of a disabled one.
C2_OnlyEnabledAlphabets ==
    (pc = "done" /\ ValidOptions(options)) =>
        \A i \in 1..Len(result.value) :
            /\ \E cat \in Enabled(options) : result.value[i] \in Alphabet(cat)
            /\ \A cat \in Categories \ Enabled(options) :
                   result.value[i] \notin Alphabet(cat)

\* a password with filler characters was returned while a category is disabled
C2_Witness ==
    /\ pc = "done"
    /\ ValidOptions(options)
    /\ Enabled(options) = { "lowercase", "numbers" }
    /\ result.outcome = "returned"
    /\ Len(result.value) > 2

\* C3: for valid options with k enabled categories and k <= options.length,
\* the password contains at least one character of each enabled category.
C3_EveryEnabledCategoryCovered ==
    ( /\ pc = "done"
      /\ ValidOptions(options)
      /\ Cardinality(Enabled(options)) <= options.length ) =>
        \A cat \in Enabled(options) :
            \E i \in 1..Len(result.value) : result.value[i] \in Alphabet(cat)

\* four categories in four characters: every character is a required one
C3_Witness ==
    /\ pc = "done"
    /\ options.length = 4
    /\ Enabled(options) = Categories
    /\ result.outcome = "returned"
    /\ \A cat \in Categories :
           \E i \in 1..Len(result.value) : result.value[i] \in Alphabet(cat)

\* C4: with at least one category enabled, generatePassword fails with the
\* invalid-length error exactly when options.length < 4 or options.length > 50
\* (it fails for 3 and 51 and succeeds for 4 and 50).
C4_LengthErrorExactlyOutside4To50 ==
    (pc = "done" /\ Enabled(options) # {}) =>
        /\ (result.outcome = "thrown" /\ result.error = LengthError)
               <=> (options.length < 4 \/ options.length > 50)
        /\ options.length \in {3, 51} => result.outcome = "thrown"
        /\ options.length \in {4, 50} => result.outcome = "returned"

\* the four boundary lengths are tried; this is the call with length 51
C4_Witness ==
    /\ pc = "done"
    /\ Enabled(options) # {}
    /\ options.length = 51
    /\ result.outcome = "thrown"
    /\ result.error = LengthError

\* C5 as stated: with all four flags false generatePassword fails with the
\* no-category-selected error for any options.length, also outside [4,50].
C5_Original_NoCategoryErrorForAnyLength ==
    (pc = "done" /\ Enabled(options) = {}) =>
        /\ result.outcome = "thrown"
        /\ result.error = NoTypesError

\* C5 as amended: with all four flags false generatePassword fails for any
\* options.length: with the no-category-selected error when
\* 4 <= options.length <= 50, and with the invalid-length error otherwise
\* (the length is validated first).
C5_NoCategoryErrorWhenLengthInRange ==
    (pc = "done" /\ Enabled(options) = {}) =>
        /\ result.outcome = "thrown"
        /\ result.error =
               IF 4 <= options.length /\ options.length <= 50
               THEN NoTypesError ELSE LengthError

\* no category and a length in range: the no-category error was thrown
C5_Witness ==
    /\ pc = "done"
    /\ Enabled(options) = {}
    /\ options.length = 50
    /\ result.outcome = "thrown"
    /\ result.error = NoTypesError

-----------------------------------------------------------------------------
(* Properties of calculatePasswordStrength *)

\* the table of levels by password length L and number of enabled categories V
TableLevel(L, V) ==
    CASE L < 6 -> 0
      [] 6 <= L /\ L < 8 -> IF V >= 2 THEN 1 ELSE 0
      [] 8 <= L /\ L < 12 -> IF V >= 3 THEN 2 ELSE IF V = 2 THEN 1 ELSE 0
      [] 12 <= L /\ L < 16 -> IF V >= 3 THEN 3 ELSE 2
      [] L >= 16 -> IF V = 4 THEN 4 ELSE IF V = 3 THEN 3 ELSE 2

\* C7: for every password length L >= 0 and every combination of flags with
\* V of them enabled, calculatePasswordStrength returns the table's level.
C7_LevelFollowsTable ==
    pc = "scored" =>
        strength.level =
            TableLevel(Len(password), Cardinality(Enabled(options)))

\* a password of 16 characters scored with all four categories: level 4
C7_Witness ==
    /\ pc = "scored"
    /\ Len(password) = 16
    /\ Enabled(options) = Categories
    /\ strength.level = 4

\* C8 as stated: with all four flags false calculatePasswordStrength returns
\* level 0 for every non-negative password length.
C8_Original_EmptySetIsLevel0 ==
    (pc = "scored" /\ Enabled(options) = {}) => strength.level = 0

\* C8 as amended: with all four flags false calculatePasswordStrength returns
\* level 0 for every password shorter than 12 characters and level 2
\* ("MEDIUM") for every password of 12 characters or more.
C8_EmptySetIsLevel0Below12 ==
    (pc = "scored" /\ Enabled(options) = {}) =>
        strength.level = IF Len(password) < 12 THEN 0 ELSE 2

\* a password of 12 characters scored with no category enabled
C8_Witness ==
    /\ pc = "scored"
    /\ Enabled(options) = {}
    /\ Len(password) = 12
    /\ strength.level = 2

\* C9: calculatePasswordStrength returns a level in 0..4 and the label that
\* is the level-th entry of TOO WEAK, WEAK, MEDIUM, STRONG, VERY STRONG.
C9_LabelIsLevelthEntry ==
    pc = "scored" =>
        /\ strength.level \in 0..4
        /\ strength.label =
               << "TOO WEAK", "WEAK", "MEDIUM", "STRONG", "VERY STRONG" >>
                   [strength.level + 1]

\* a result of level 3 was returned
C9_Witness ==
    /\ pc = "scored"
    /\ strength.level = 3
    /\ strength.label = "STRONG"

\* C10: the result depends only on the password's length and the four flags:
\* any password of the same length, scored with any options of the same
\* flags, gets the result this call returned.
C10_DependsOnLengthAndFlagsOnly ==
    pc = "scored" =>
        \A pw \in { p \in ScorePasswords : Len(p) = Len(password) } :
            \A opts \in { o \in ScoreOptions : Enabled(o) = Enabled(options) } :
                calculatePasswordStrength(pw, opts) = strength

\* the call scored a password for which another password of the same length
\* but other characters, and other options of the same flags, exist
C10_Witness ==
    /\ pc = "scored"
    /\ Len(password) = 12
    /\ Enabled(options) = { "uppercase", "numbers" }
    /\ \E pw \in ScorePasswords : Len(pw) = Len(password) /\ pw # password
    /\ \E opts \in ScoreOptions :
           Enabled(opts) = Enabled(options) /\ opts.length # options.length

-----------------------------------------------------------------------------
(* Properties of generatePassword: the random source *)

\* the values a successful call asks of the source: one per required
\* character, one per comparator call, one per filler, one per swap
DrawsOfCall(opts, outcome) == 2 * opts.length - 1 + outcome.calls

\* C11: if the random source fails at any draw of a generatePassword call,
\* the call aborts with an error that is neither validation error and returns
\* no password (none made from another generator either).
C11_FailsClosedWithoutRandomSource ==
    ( /\ pc = "done"
      /\ ValidOptions(options)
      /\ crypto.failAt \in 1..DrawsOfCall(options, sortOutcome) ) =>
        /\ result.outcome = "thrown"
        /\ result.error \notin { LengthError, NoTypesError, "" }
        /\ result.value = << >>

\* the source failed at the very last draw of a call, in the final shuffle
C11_Witness ==
    /\ pc = "done"
    /\ ValidOptions(options)
    /\ crypto.failAt = DrawsOfCall(options, sortOutcome)
    /\ result.outcome = "thrown"
    /\ result.error = RandomSourceError

-----------------------------------------------------------------------------
(* Properties of generatePassword: the shuffle of the required characters *)

\* the source whose comparator answers are the values of answers
AnswerSource(m, answers) ==
    [ free |-> [ k \in 1..(m + Len(answers)) |->
                   IF k <= m THEN U32(0, 0) ELSE answers[k - m] ],
      seed |-> 0, failAt |-> 0 ]

\* for each order of m required characters, in how many of the equally likely
\* sequences of comparator answers the sort leaves them in that order
OrderWeights(m) ==
    [ p \in Perms(m) |->
        Cardinality({ answers \in [1..MaxCompareCalls(m) -> SignVals] :
                        sortByInsertion(m, AnswerSource(m, answers)).perm = p }) ]

\* C13 as stated: the required characters are permuted without bias, every
\* order of them being produced with equal weight over the random draws.
C13_Original_RequiredShuffleUnbiased ==
    pc \in { "sorted", "done" } =>
        LET w == OrderWeights(numRequiredChars(options))
        IN  \A p, q \in DOMAIN w : w[p] = w[q]

-----------------------------------------------------------------------------
(* Properties of generatePassword: the random indices *)

\* how many of the 16-bit values 0 .. 65535 leave remainder a modulo n
Residues(a, n) == ((65535 - a) \div n) + 1

RECURSIVE SumTo(_, _)
SumTo(f, k) == IF k < 0 THEN 0 ELSE f[k] + SumTo(f, k - 1)

\* how many of the 2^32 values of a Uint32 randomIndex maps to index i of a
\* range of size n: the index depends on the two halves only through their
\* remainders modulo n, so the values are counted by those remainders
ValuesGiving(n, i) ==
    SumTo([ a \in 0..(n - 1) |->
              Residues(a, n) *
              SumTo([ b \in 0..(n - 1) |->
                        IF randomIndex(U32(a, b), n) = i
                        THEN Residues(b, n) ELSE 0 ], n - 1) ], n - 1)

\* the sizes of the ranges a call selects indices over: the alphabets of the
\* enabled categories, the combined alphabet, and the shuffle ranges i + 1.
\* Ranges of 1 and 2 are left out: they divide 2^32, and their counts of
\* 2^32 and 2^31 values are no 32-bit integers.
RangeSizes(opts) ==
    { s \in { Cardinality(Alphabet(cat)) : cat \in Enabled(opts) }
            \cup { Len(characterPool(opts)) }
            \cup { i + 1 : i \in 1..(opts.length - 1) } : s >= 3 }

\* C14 as stated: every index selected over a range of size s is free of
\* modulo bias, each index of 0 .. s-1 being produced by the same number of
\* values of the 32-bit random integer.
C14_Original_NoModuloBias ==
    (pc = "done" /\ result.outcome = "returned") =>
        \A s \in RangeSizes(options) :
            LET w == [ i \in 0..(s - 1) |-> ValuesGiving(s, i) ]
            IN  \A i, j \in 0..(s - 1) : w[i] = w[j]

\* C15 as stated: a successful call draws at most options.length values.
C15_Original_AtMostLengthDraws ==
    (pc = "done" /\ result.outcome = "returned") =>
        result.draws <= options.length

\* C15 as amended: a successful call ends after drawing exactly
\* 2 * options.length - 1 values (one per required character, one per filler
\* and options.length - 1 for the final shuffle) plus one per comparator call
\* of the sort of the required characters, which is more than
\* options.length.
C15_DrawsTwiceLengthPlusSort ==
    (pc = "done" /\ result.outcome = "returned") =>
        /\ result.draws = 2 * options.length - 1 + sortOutcome.calls
        /\ result.draws > options.length

\* a call for 50 characters of four categories returned after 99 draws and
\* those of the sort
C15_Witness ==
    /\ pc = "done"
    /\ result.outcome = "returned"
    /\ options.length = 50
    /\ Enabled(options) = Categories
    /\ result.draws >= 99 + 3

-----------------------------------------------------------------------------
(* Properties of generatePassword: the final shuffle *)

\* how many times character c occurs in sequence s
Count(s, c) == Cardinality({ i \in DOMAIN s : s[i] = c })

SameCharacters(s, t) ==
    \A c \in Range(s) \cup Range(t) : Count(s, c) = Count(t, c)

\* C19: the final shuffle returns a permutation of the required characters
\* followed by the fillers: the characters with their multiplicities, the
\* length and the categories covered are those of that concatenation.
C19_FinalShufflePermutes ==
    (pc = "done" /\ result.outcome = "returned") =>
        LET m == Len(result.requiredChars)
        IN  /\ SameCharacters(SubSeq(result.unshuffled, 1, m),
                              result.requiredChars)
            /\ Len(result.value) = Len(result.unshuffled)
            /\ SameCharacters(result.value, result.unshuffled)
            /\ \A cat \in Categories :
                   (Range(result.value) \cap Alphabet(cat) # {})
                       <=> (Range(result.unshuffled) \cap Alphabet(cat) # {})

\* the shuffle moved characters: the password returned is in another order
\* than the required characters and fillers were put together in
C19_Witness ==
    /\ pc = "done"
    /\ result.outcome = "returned"
    /\ options.length = 6
    /\ result.value # result.unshuffled
    /\ \E c \in Range(result.value) : Count(result.value, c) > 1

-----------------------------------------------------------------------------
(* Properties of the App component *)

\* C16 as stated: every call the App makes to generatePassword passes
\* 4 <= options.length <= 50 and at least one category flag true.
C16_Original_CallsValidated ==
    call.made => ValidOptions(call.options)

\* C16: every call the App makes to generatePassword passes a length between
\* 4 and 50, and the calls made by a click on Generate or by Ctrl+G pass at
\* least one category flag true; the calls of the toggle handler and of the
\* effect may pass no flag.
C16_CallsInRangeAndGuarded ==
    call.made =>
        /\ 4 <= call.options.length
        /\ call.options.length <= 50
        /\ (call.by \in { "click", "key" } => Enabled(call.options) # {})

\* Ctrl+G has generated a password of 50 characters with symbols, after
\* slider changes and toggles
C16_Witness ==
    /\ call.made
    /\ call.by = "key"
    /\ call.outcome = "returned"
    /\ call.options.length = 50
    /\ call.options.symbols
    /\ ~call.options.uppercase

\* C17 as stated: a step after which the last event of the user is a length
\* change, the change itself or what the App does after it on its own, leaves
\* the displayed password as it was.
C17_Original_LengthChangeKeepsPassword ==
    [][event' = "length" => password' = password]_vars

\* C18: in every state of the App, options.length is an integer between 4
\* and 50.
C18_LengthInRange ==
    /\ options.length \in Int
    /\ 4 <= options.length
    /\ options.length <= 50

\* the slider has been moved to an end of its range after a toggle
C18_Witness ==
    /\ event = "length"
    /\ options.length = 50
    /\ options # [defaultOptions EXCEPT !.length = 50]

\* C20: when generatePassword has thrown inside generateNewPassword, whatever
\* the reason, the password is the empty string.
C20_FailureClearsPassword ==
    (call.made /\ call.outcome = "thrown") => password = <<>>

\* a click on Generate with a category selected has failed on the random
\* source, and the password is empty
C20_Witness ==
    /\ call.made
    /\ call.by = "click"
    /\ call.outcome = "thrown"
    /\ ValidOptions(call.options)
    /\ password = <<>>

\* C21: in every state of the hook, strength is {level: 0, label: ""} exactly
\* when the password is empty, and otherwise it is calculatePasswordStrength of
\* the current password and the current options.
C21_StrengthFollowsPassword ==
    /\ (strength = NoStrength) <=> (password = <<>>)
    /\ password # <<>> => strength = calculatePasswordStrength(password, options)

\* a checkbox was ticked and the strength shown is that of the password of the
\* old options under the new options
C21_Witness ==
    /\ event = "toggle"
    /\ effectPending
    /\ options.symbols
    /\ password # <<>>
    /\ Len(password) = 50
    /\ strength = [ level |-> 4, label |-> "VERY STRONG" ]

\* C22: while no category flag is enabled, a click on Generate or a press of
\* Ctrl+G makes no call to generatePassword and leaves password and options
\* unchanged.
C22_NothingSelectedNothingGenerated ==
    [][(Enabled(options) = {} /\ ~effectPending /\ event' \in { "click", "key" })
        => (~call'.made /\ password' = password /\ options' = options)]_vars

\* Ctrl+G was pressed with no category enabled and no call was made
C22_Witness ==
    /\ event = "key"
    /\ Enabled(options) = {}
    /\ ~call.made
    /\ password = <<>>

\* the characters of the categories enabled in opts
EnabledAlphabet(opts) == UNION { Alphabet(cat) : cat \in Enabled(opts) }

\* the password has the length of opts and only characters enabled in opts
GeneratedFrom(pw, opts) ==
    /\ Len(pw) = opts.length
    /\ Range(pw) \subseteq EnabledAlphabet(opts)

-----------------------------------------------------------------------------
(* Monotonicity of calculatePasswordStrength *)

\* the options with one more category flag enabled
OneMoreFlag(opts) ==
    { [opts EXCEPT ![cat] = TRUE] : cat \in Categories \ Enabled(opts) }

\* C24: the level returned by calculatePasswordStrength does not decrease when
\* the password gets longer under the same flags, nor when one more category
\* flag is enabled for the same password.
C24_LevelMonotone ==
    pc = "scored" =>
        /\ \A longer \in ScorePasswords :
               Len(longer) >= Len(password) =>
                   calculatePasswordStrength(longer, options).level >= strength.level
        /\ \A more \in OneMoreFlag(options) :
               calculatePasswordStrength(password, more).level >= strength.level

\* a password of 15 characters with two categories was scored MEDIUM; longer
\* passwords and a third category are there to compare with
C24_Witness ==
    /\ pc = "scored"
    /\ Len(password) = 15
    /\ varietyCount(options) = 2
    /\ strength.level = 2
    /\ \E longer \in ScorePasswords : Len(longer) > 15
    /\ \E more \in OneMoreFlag(options) :
           calculatePasswordStrength(password, more).level = 3

-----------------------------------------------------------------------------
(* Properties of the PasswordDisplay component *)

\* C25 as stated: the error message of a failed copy is cleared only by the
\* start of the next copy attempt or when 3 seconds have passed since that
\* failure, never earlier by the timeout of a previous failed copy.
C25_Original_ErrorStaysThreeSeconds ==
    [][(error # Null /\ error' = Null) =>
           (pending' > pending \/ now >= lastFailure + ErrorClearDelay)]_vars

=============================================================================
